---- MODULE Spec2Model ----
(***************************************************************************)
(* PyToolbox CLI (src/main.py): the three subcommands rename, combine and  *)
(* analyze, each as a state machine over the file system it touches.       *)
(* File names are sequences of one-character strings, so that the string   *)
(* operations of the code (splitext, endswith, lower, f-string             *)
(* concatenation, str(int)) are computed and not assumed.                  *)
(***************************************************************************)
EXTENDS Integers, Sequences, FiniteSets, TLC

VARIABLES
    command,    \* args.command: "rename", "combine" or "analyze"
    args,       \* the parsed argument record of the subcommand
    pc,         \* position of the handler
    out,        \* console output: the sequence of printed messages
    fs,         \* rename: the directory, name -> identity of the entry stored there
    fs0,        \* rename: the directory as it was when the handler was entered
    files,      \* the list the handler's for loop iterates
    idx,        \* 0-based loop index of the handler's for loop
    renames,    \* rename: the os.rename calls performed, in order
    artifacts,  \* rename: files written under ./output_pdf and ./output_txt
    merger,     \* combine: pages accumulated in the PdfMerger
    written,    \* combine: the documents written to the output path (none or one)
    filetext    \* analyze: the file args.file names: [exists, text]

vars == <<command, args, pc, out, fs, fs0, files, idx, renames, artifacts,
          merger, written, filetext>>

(***************************************************************************)
(* Bounds of the model.                                                    *)
(***************************************************************************)
MaxEntries == 4      \* entries in the directory given to rename
MaxOverwrite == 2    \* names given to --overwrite
MaxCombine == 3      \* files given to combine
MaxText == 5         \* characters in the file given to analyze

\* the file args.file names does not exist
Missing == [exists |-> FALSE, text |-> <<>>]
\* nothing was written to the output path
NoDoc == <<>>

(***************************************************************************)
(* String helpers.                                                         *)
(***************************************************************************)
\* str.lower() on the characters the model uses
LowerChar(c) ==
    CASE c = "P" -> "p"
      [] c = "D" -> "d"
      [] c = "F" -> "f"
      [] c = "T" -> "t"
      [] c = "X" -> "x"
      [] OTHER -> c

Lower(s) == [i \in 1..Len(s) |-> LowerChar(s[i])]

\* str.endswith(suffix)
EndsWith(s, suffix) ==
    /\ Len(s) >= Len(suffix)
    /\ SubSeq(s, Len(s) - Len(suffix) + 1, Len(s)) = suffix

Digit(d) == <<"0", "1", "2", "3", "4", "5", "6", "7", "8", "9">>[d + 1]

\* str(n) for n >= 0, as the f-string {idx+1} formats it
RECURSIVE IntToStr(_)
IntToStr(n) ==
    IF n < 10 THEN <<Digit(n)>>
    ELSE IntToStr(n \div 10) \o <<Digit(n % 10)>>

\* index of the last "." of s, 0 when there is none (str.rfind)
RECURSIVE RFindDot(_, _)
RFindDot(s, i) ==
    IF i = 0 THEN 0
    ELSE IF s[i] = "." THEN i
    ELSE RFindDot(s, i - 1)

\* os.path.splitext on a base name: the extension starts at the last dot,
\* unless only dots precede it (leading dots belong to the name)
splitext(p) ==
    LET dot == RFindDot(p, Len(p))
    IN  IF dot > 0 /\ \E k \in 1..(dot - 1) : p[k] # "."
        THEN [name |-> SubSeq(p, 1, dot - 1), ext |-> SubSeq(p, dot, Len(p))]
        ELSE [name |-> p, ext |-> <<>>]

DotTxt == <<".", "t", "x", "t">>
DotPdf == <<".", "p", "d", "f">>

(***************************************************************************)
(* rename: the directory and the command line.                             *)
(***************************************************************************)
A_TXT == <<"a", ".", "t", "x", "t">>
ONE_TXT == <<"1", ".", "t", "x", "t">>
C_PDF == <<"c", ".", "p", "d", "f">>
E_PDF == <<"e", ".", "P", "D", "F">>
R_FILE == <<"r">>
SUB == <<"1">>

\* the entries a directory may hold; an entry's identity is its first name
Universe == {A_TXT, ONE_TXT, C_PDF, E_PDF, R_FILE, SUB}
\* identities that are subdirectories
Directories == {SUB}
\* identities whose content makes the conversion raise (an unreadable PDF,
\* a page whose extract_text() gives None)
Unconvertible == {E_PDF}

DirPath == "DirPath"
Prefixes == {<<>>, <<"x">>}
Suffixes == {<<>>, <<"s">>}
OverwriteNames == {<<>>, <<"n">>, <<"m">>}

\* --overwrite has nargs='+': absent (default None, written NoOverwrite here:
\* the code only tests its truth value) or a non-empty list of strings
NoOverwrite == <<>>
Overwrites ==
    {NoOverwrite} \cup UNION {[1..n -> OverwriteNames] : n \in 1..MaxOverwrite}

RenameArgs ==
    [directory : {DirPath, A_TXT},
     prefix : Prefixes,
     suffix : Suffixes,
     numbered : BOOLEAN,
     overwrite : Overwrites,
     txtpdfconvert : BOOLEAN]

\* os.path.isdir / os.path.isfile on an entry of the directory
isdir(d, name) == name \in DOMAIN d /\ d[name] \in Directories
isfile(d, name) == name \in DOMAIN d /\ d[name] \notin Directories

\* the orders os.listdir may return the entries in
Listings(d) ==
    {s \in [1..Cardinality(DOMAIN d) -> DOMAIN d] :
        \A i, j \in DOMAIN s : i # j => s[i] # s[j]}

\* the file the loop is at
filepath == files[idx + 1]

\* OverwriteCheck without the length test of lines 124-126
OverwriteCheckNoLength(ov, i) ==
    IF ov # NoOverwrite /\ i < Len(ov)
    THEN IF ov[i + 1] = <<>> THEN "empty" ELSE "ok"
    ELSE "unused"

\* lines 117-126: the check of --overwrite at index i (argparse gives a list
\* of strings, so the "is None" branch of line 118 is never taken)
OverwriteCheck(ov, i) ==
    IF ov # NoOverwrite /\ i < Len(ov)
    THEN IF ov[i + 1] = <<>> THEN "empty"
         ELSE IF Len(ov) # i + 1 THEN "length"
         ELSE "ok"
    ELSE "unused"

\* lines 127-129: new_base
NewBase(a, i, name) ==
    IF OverwriteCheck(a.overwrite, i) = "ok" THEN a.overwrite[i + 1] ELSE name

\* NewName with the numbering applied only when no overwrite name is used
NewNameOverwriteFirst(a, i, p) ==
    LET s == splitext(p)
    IN  IF a.numbered /\ OverwriteCheck(a.overwrite, i) # "ok"
        THEN a.prefix \o IntToStr(i + 1) \o a.suffix \o s.ext
        ELSE a.prefix \o NewBase(a, i, s.name) \o a.suffix \o s.ext

\* lines 130-133: new_name
NewName(a, i, p) ==
    LET s == splitext(p)
    IN  IF a.numbered
        THEN a.prefix \o IntToStr(i + 1) \o a.suffix \o s.ext
        ELSE a.prefix \o NewBase(a, i, s.name) \o a.suffix \o s.ext

\* lines 139, 154: which conversion the file gets
Conversion(a, p) ==
    LET ext == Lower(splitext(p).ext)
    IN  IF a.txtpdfconvert /\ ext = DotTxt THEN "txt2pdf"
        ELSE IF a.txtpdfconvert /\ ext = DotPdf THEN "pdf2txt"
        ELSE "none"

\* lines 148-151, 159-164: the artifact a conversion writes
Artifact(a, p) ==
    LET name == splitext(p).name
    IN  IF Conversion(a, p) = "txt2pdf"
        THEN [dir |-> "output_pdf", name |-> a.prefix \o name \o a.suffix \o DotPdf]
        ELSE [dir |-> "output_txt", name |-> a.prefix \o name \o a.suffix \o DotTxt]

\* the conversion of the content stored at p raises
ConversionRaises(a, p) ==
    Conversion(a, p) # "none" /\ fs[p] \in Unconvertible

\* os.rename(old, new) on POSIX: the destination, if a file, is replaced
Rename(d, old, new) ==
    [n \in (DOMAIN d \ {old}) \cup {new} |-> IF n = new THEN d[old] ELSE d[n]]

InitRename ==
    /\ command = "rename"
    /\ args \in RenameArgs
    /\ pc = "start"
    /\ out = <<>>
    /\ \E S \in SUBSET Universe :
          /\ Cardinality(S) <= MaxEntries
          /\ fs = [n \in S |-> n]
    /\ fs0 = fs
    /\ files = <<>>
    /\ idx = 0
    /\ renames = <<>>
    /\ artifacts = {}
    /\ merger = <<>>
    /\ written = NoDoc
    /\ filetext = Missing

\* lines 97-99: the argument is a directory
ResolveDir ==
    /\ command = "rename" /\ pc = "start"
    /\ args.directory = DirPath
    /\ files' \in Listings(fs)
    /\ pc' = "loop"
    /\ UNCHANGED <<command, args, out, fs, fs0, idx, renames, artifacts,
                   merger, written, filetext>>

\* lines 100-101: the argument is a regular file
ResolveFile ==
    /\ command = "rename" /\ pc = "start"
    /\ args.directory # DirPath
    /\ isfile(fs, args.directory)
    /\ files' = <<args.directory>>
    /\ pc' = "loop"
    /\ UNCHANGED <<command, args, out, fs, fs0, idx, renames, artifacts,
                   merger, written, filetext>>

\* lines 102-104: the argument names nothing
ResolveNotFound ==
    /\ command = "rename" /\ pc = "start"
    /\ args.directory # DirPath
    /\ ~isfile(fs, args.directory)
    /\ out' = Append(out, [msg |-> "Path not found"])
    /\ pc' = "done"
    /\ UNCHANGED <<command, args, fs, fs0, files, idx, renames, artifacts,
                   merger, written, filetext>>

\* lines 113-114: skip subdirectories and non-files
SkipNonFile ==
    /\ command = "rename" /\ pc = "loop" /\ idx < Len(files)
    /\ ~isfile(fs, filepath)
    /\ idx' = idx + 1
    /\ UNCHANGED <<command, args, pc, out, fs, fs0, files, renames, artifacts,
                   merger, written, filetext>>

\* lines 118-126: an invalid --overwrite makes the handler return
OverwriteError ==
    /\ command = "rename" /\ pc = "loop" /\ idx < Len(files)
    /\ isfile(fs, filepath)
    /\ OverwriteCheck(args.overwrite, idx) \in {"empty", "length"}
    /\ out' = Append(out, [msg |-> "Error: Overwrite",
                           kind |-> OverwriteCheck(args.overwrite, idx)])
    /\ pc' = "aborted"
    /\ UNCHANGED <<command, args, fs, fs0, files, idx, renames, artifacts,
                   merger, written, filetext>>

\* lines 139-164: the conversion raises; nothing in handle_rename catches it
ConvertRaise ==
    /\ command = "rename" /\ pc = "loop" /\ idx < Len(files)
    /\ isfile(fs, filepath)
    /\ OverwriteCheck(args.overwrite, idx) \in {"ok", "unused"}
    /\ ConversionRaises(args, filepath)
    /\ out' = Append(out, [msg |-> "Traceback", cause |-> "conversion", idx |-> idx])
    /\ pc' = "crashed"
    /\ UNCHANGED <<command, args, fs, fs0, files, idx, renames, artifacts,
                   merger, written, filetext>>

\* lines 116-167 when os.rename raises: the destination is a directory
RenameRaise ==
    /\ command = "rename" /\ pc = "loop" /\ idx < Len(files)
    /\ isfile(fs, filepath)
    /\ OverwriteCheck(args.overwrite, idx) \in {"ok", "unused"}
    /\ ~ConversionRaises(args, filepath)
    /\ isdir(fs, NewName(args, idx, filepath))
    /\ artifacts' = IF Conversion(args, filepath) = "none" THEN artifacts
                    ELSE artifacts \cup {Artifact(args, filepath)}
    /\ out' = Append(out, [msg |-> "Traceback", cause |-> "rename", idx |-> idx])
    /\ pc' = "crashed"
    /\ UNCHANGED <<command, args, fs, fs0, files, idx, renames,
                   merger, written, filetext>>

\* lines 116-168: one file is converted (if asked) and renamed
RenameFile ==
    /\ command = "rename" /\ pc = "loop" /\ idx < Len(files)
    /\ isfile(fs, filepath)
    /\ OverwriteCheck(args.overwrite, idx) \in {"ok", "unused"}
    /\ ~ConversionRaises(args, filepath)
    /\ ~isdir(fs, NewName(args, idx, filepath))
    /\ artifacts' = IF Conversion(args, filepath) = "none" THEN artifacts
                    ELSE artifacts \cup {Artifact(args, filepath)}
    /\ fs' = Rename(fs, filepath, NewName(args, idx, filepath))
    /\ renames' = Append(renames, [from |-> filepath,
                                   to |-> NewName(args, idx, filepath),
                                   id |-> fs[filepath]])
    /\ out' = Append(out, [msg |-> "Renamed", from |-> filepath,
                           to |-> NewName(args, idx, filepath)])
    /\ idx' = idx + 1
    /\ UNCHANGED <<command, args, pc, fs0, files, merger, written, filetext>>

\* line 111: the loop is exhausted and the handler returns
RenameDone ==
    /\ command = "rename" /\ pc = "loop" /\ idx = Len(files)
    /\ pc' = "done"
    /\ UNCHANGED <<command, args, out, fs, fs0, files, idx, renames, artifacts,
                   merger, written, filetext>>

handle_rename ==
    \/ ResolveDir
    \/ ResolveFile
    \/ ResolveNotFound
    \/ SkipNonFile
    \/ OverwriteError
    \/ ConvertRaise
    \/ RenameRaise
    \/ RenameFile
    \/ RenameDone

SpecRename == InitRename /\ [][handle_rename]_vars

(***************************************************************************)
(* combine: the files on disk and the command line.                        *)
(***************************************************************************)
X_PDF == <<"x", ".", "p", "d", "f">>
W_PDF == <<"w", ".", "p", "d", "f">>
Y_TXT == <<"y", ".", "t", "x", "t">>
Z_PDF == <<"z", ".", "P", "D", "F">>
M_PDF == <<"m", ".", "p", "d", "f">>
U_PDF == <<"u", ".", "p", "d", "f">>

CombineNames == {X_PDF, W_PDF, Y_TXT, Z_PDF, M_PDF, U_PDF}
\* names with no file behind them: merger.append raises FileNotFoundError
NotOnDisk == {M_PDF}
\* files PyPDF2 cannot read: merger.append raises another exception
Unreadable == {U_PDF, Y_TXT}
\* the pages of the readable documents
Pages(f) ==
    CASE f = X_PDF -> <<"x1", "x2">>
      [] f = W_PDF -> <<"w1">>
      [] f = Z_PDF -> <<"z1">>
      [] OTHER -> <<>>

CombineArgs ==
    [files : UNION {[1..n -> CombineNames] : n \in 1..MaxCombine},
     output : {"combined.pdf"}]

\* line 181: file.endswith(".pdf")
IsPdfName(f) == EndsWith(f, DotPdf)

\* AppendPages putting the new pages in front of the accumulated ones
AppendPagesFront(m, f) == Pages(f) \o m

\* line 187: merger.append(file) on a readable document
AppendPages(m, f) == m \o Pages(f)

InitCombine ==
    /\ command = "combine"
    /\ args \in CombineArgs
    /\ pc = "loop"
    /\ out = <<>>
    /\ fs = <<>> /\ fs0 = <<>>
    /\ files = args.files
    /\ idx = 0
    /\ renames = <<>>
    /\ artifacts = {}
    /\ merger = <<>>
    /\ written = NoDoc
    /\ filetext = Missing

\* lines 181-183: a name not ending in ".pdf" is skipped
CombineSkip ==
    /\ command = "combine" /\ pc = "loop" /\ idx < Len(files)
    /\ ~IsPdfName(filepath)
    /\ out' = Append(out, [msg |-> "Skipping non-PDF", file |-> filepath])
    /\ idx' = idx + 1
    /\ UNCHANGED <<command, args, pc, fs, fs0, files, renames, artifacts,
                   merger, written, filetext>>

\* lines 186-188: the file is appended
CombineAdd ==
    /\ command = "combine" /\ pc = "loop" /\ idx < Len(files)
    /\ IsPdfName(filepath)
    /\ filepath \notin NotOnDisk /\ filepath \notin Unreadable
    /\ merger' = AppendPages(merger, filepath)
    /\ out' = Append(out, [msg |-> "Added", file |-> filepath])
    /\ idx' = idx + 1
    /\ UNCHANGED <<command, args, pc, fs, fs0, files, renames, artifacts,
                   written, filetext>>

\* lines 189-190: the file does not exist
CombineNotFound ==
    /\ command = "combine" /\ pc = "loop" /\ idx < Len(files)
    /\ IsPdfName(filepath)
    /\ filepath \in NotOnDisk
    /\ out' = Append(out, [msg |-> "File not found", file |-> filepath])
    /\ idx' = idx + 1
    /\ UNCHANGED <<command, args, pc, fs, fs0, files, renames, artifacts,
                   merger, written, filetext>>

\* lines 191-193: the file cannot be read as a PDF
CombineError ==
    /\ command = "combine" /\ pc = "loop" /\ idx < Len(files)
    /\ IsPdfName(filepath)
    /\ filepath \notin NotOnDisk /\ filepath \in Unreadable
    /\ out' = Append(out, [msg |-> "Error adding", file |-> filepath])
    /\ idx' = idx + 1
    /\ UNCHANGED <<command, args, pc, fs, fs0, files, renames, artifacts,
                   merger, written, filetext>>

\* lines 199-202: the merged document is written
CombineWrite ==
    /\ command = "combine" /\ pc = "loop" /\ idx = Len(files)
    /\ written' = <<merger>>
    /\ out' = Append(out, [msg |-> "Combined PDF saved as", file |-> args.output])
    /\ pc' = "done"
    /\ UNCHANGED <<command, args, fs, fs0, files, idx, renames, artifacts,
                   merger, filetext>>

\* lines 203-204: writing the output raises
CombineWriteFail ==
    /\ command = "combine" /\ pc = "loop" /\ idx = Len(files)
    /\ out' = Append(out, [msg |-> "Failed to write output PDF", file |-> args.output])
    /\ pc' = "done"
    /\ UNCHANGED <<command, args, fs, fs0, files, idx, renames, artifacts,
                   merger, written, filetext>>

handle_combine ==
    \/ CombineSkip
    \/ CombineAdd
    \/ CombineNotFound
    \/ CombineError
    \/ CombineWrite
    \/ CombineWriteFail

SpecCombine == InitCombine /\ [][handle_combine]_vars

(***************************************************************************)
(* analyze: the text file and the command line.                            *)
(***************************************************************************)
\* the characters a text is made of; open(..., "r") translates "\r" and
\* "\r\n" to "\n", so "\r" does not occur in what f.read() returns
Alphabet == {"a", "b", " ", "\n", "\f"}
\* the characters str.splitlines() ends a line at (of the alphabet)
LineBreaks == {"\n", "\f"}
\* the characters str.split() separates words at (of the alphabet)
Whitespace == {" ", "\n", "\f"}

Texts == UNION {[1..n -> Alphabet] : n \in 0..MaxText}

AnalyzeArgs ==
    [file : {"file.txt"}, freq : BOOLEAN, lines : BOOLEAN, words : BOOLEAN,
     chars : BOOLEAN]

\* str.splitlines(): a line ends at each line break; what follows the last
\* break is a line only when it is not empty
RECURSIVE SplitLinesFrom(_, _, _, _)
SplitLinesFrom(t, i, cur, acc) ==
    IF i > Len(t) THEN (IF cur = <<>> THEN acc ELSE Append(acc, cur))
    ELSE IF t[i] \in LineBreaks THEN SplitLinesFrom(t, i + 1, <<>>, Append(acc, cur))
    ELSE SplitLinesFrom(t, i + 1, Append(cur, t[i]), acc)

\* splitlines as text.split("\n") would count: a segment after every newline
RECURSIVE SplitNewlineFrom(_, _, _, _)
SplitNewlineFrom(t, i, cur, acc) ==
    IF i > Len(t) THEN Append(acc, cur)
    ELSE IF t[i] = "\n" THEN SplitNewlineFrom(t, i + 1, <<>>, Append(acc, cur))
    ELSE SplitNewlineFrom(t, i + 1, Append(cur, t[i]), acc)

splitOnNewline(t) == SplitNewlineFrom(t, 1, <<>>, <<>>)

\* line 218
splitlines(t) == SplitLinesFrom(t, 1, <<>>, <<>>)

\* str.split(): the maximal runs of characters that are not whitespace
RECURSIVE SplitFrom(_, _, _, _)
SplitFrom(t, i, cur, acc) ==
    IF i > Len(t) THEN (IF cur = <<>> THEN acc ELSE Append(acc, cur))
    ELSE IF t[i] \in Whitespace
         THEN SplitFrom(t, i + 1, <<>>, IF cur = <<>> THEN acc ELSE Append(acc, cur))
    ELSE SplitFrom(t, i + 1, Append(cur, t[i]), acc)

\* line 219
split(t) == SplitFrom(t, 1, <<>>, <<>>)

\* Counter(words)[w]
Count(ws, w) == Cardinality({i \in DOMAIN ws : ws[i] = w})

\* the distinct words in the order Counter first meets them
RECURSIVE FirstSeen(_, _, _)
FirstSeen(ws, i, acc) ==
    IF i > Len(ws) THEN acc
    ELSE IF \E k \in DOMAIN acc : acc[k] = ws[i] THEN FirstSeen(ws, i + 1, acc)
    ELSE FirstSeen(ws, i + 1, Append(acc, ws[i]))

\* Counter.most_common(): by count, largest first; equal counts keep the
\* order of first occurrence
RECURSIVE ByCount(_, _)
ByCount(ws, keys) ==
    IF keys = <<>> THEN <<>>
    ELSE LET k == CHOOSE k \in DOMAIN keys :
                    /\ \A j \in DOMAIN keys : Count(ws, keys[j]) <= Count(ws, keys[k])
                    /\ \A j \in 1..(k - 1) : Count(ws, keys[j]) < Count(ws, keys[k])
             rest == [j \in 1..(Len(keys) - 1) |->
                         IF j < k THEN keys[j] ELSE keys[j + 1]]
         IN  <<[word |-> keys[k], count |-> Count(ws, keys[k])]>>
                 \o ByCount(ws, rest)

\* line 236: freq.most_common(10)
TopWords == 10
most_common(ws) ==
    LET all == ByCount(ws, FirstSeen(ws, 1, <<>>))
    IN  SubSeq(all, 1, IF Len(all) < TopWords THEN Len(all) ELSE TopWords)

\* lines 225-226: no flag given means every flag
Shown(a, flag) ==
    IF ~(a.freq \/ a.lines \/ a.words \/ a.chars) THEN TRUE
    ELSE CASE flag = "freq" -> a.freq
           [] flag = "lines" -> a.lines
           [] flag = "words" -> a.words
           [] flag = "chars" -> a.chars

\* lines 228-237: what the handler prints
Report(a, t) ==
    (IF Shown(a, "lines")
     THEN <<[msg |-> "Total lines", n |-> Len(splitlines(t))]>> ELSE <<>>)
    \o (IF Shown(a, "words")
        THEN <<[msg |-> "Total words", n |-> Len(split(t))]>> ELSE <<>>)
    \o (IF Shown(a, "chars")
        THEN <<[msg |-> "Total characters", n |-> Len(t)]>> ELSE <<>>)
    \o (IF Shown(a, "freq")
        THEN <<[msg |-> "Top 10 most common words", top |-> most_common(split(t))]>>
        ELSE <<>>)

InitAnalyze ==
    /\ command = "analyze"
    /\ args \in AnalyzeArgs
    /\ pc = "start"
    /\ out = <<>>
    /\ fs = <<>> /\ fs0 = <<>>
    /\ files = <<>>
    /\ idx = 0
    /\ renames = <<>>
    /\ artifacts = {}
    /\ merger = <<>>
    /\ written = NoDoc
    /\ filetext \in {Missing} \cup {[exists |-> TRUE, text |-> t] : t \in Texts}

\* lines 213-215: the file does not exist
AnalyzeNotFound ==
    /\ command = "analyze" /\ pc = "start"
    /\ ~filetext.exists
    /\ out' = <<[msg |-> "File not found"]>>
    /\ pc' = "done"
    /\ UNCHANGED <<command, args, fs, fs0, files, idx, renames, artifacts,
                   merger, written, filetext>>

\* lines 211-237: the file is read, counted and reported
AnalyzeReport ==
    /\ command = "analyze" /\ pc = "start"
    /\ filetext.exists
    /\ out' = Report(args, filetext.text)
    /\ pc' = "done"
    /\ UNCHANGED <<command, args, fs, fs0, files, idx, renames, artifacts,
                   merger, written, filetext>>

handle_analyze ==
    \/ AnalyzeNotFound
    \/ AnalyzeReport

SpecAnalyze == InitAnalyze /\ [][handle_analyze]_vars

(***************************************************************************)
(* Properties of rename (specification SpecRename).                        *)
(***************************************************************************)
\* the batch: the regular files of the resolved list, in its order
Batch == SelectSeq(files, LAMBDA p : isfile(fs0, p))

\* the handler has returned to its caller
Returned == pc \in {"done", "aborted"}

\* the rename of the file that entry p of the list named when the loop got to it
RenamedTo(p, new) ==
    \E k \in DOMAIN renames : renames[k].from = p /\ renames[k].to = new

\* 1-based position of entry p in the resolved list
Position(p) == CHOOSE i \in DOMAIN files : files[i] = p

RegularFiles(d) == {n \in DOMAIN d : d[n] \notin Directories}

\* C1 (as claimed): whenever --overwrite is given with a length different from
\* the number n of regular files of the batch, the handler reports an
\* overwrite error and renames nothing.
C1_LengthMismatchAborts ==
    (/\ command = "rename" /\ Returned
     /\ Len(Batch) >= 1
     /\ args.overwrite # NoOverwrite
     /\ Len(args.overwrite) # Len(Batch))
    => (pc = "aborted" /\ renames = <<>> /\ fs = fs0)

\* C2 (as claimed): without --numbered, given exactly n non-empty overwrite
\* names for a batch of n >= 1 regular files, file i of the batch is renamed
\* to prefix + overwrite[i] + suffix + its extension, for every i.
C2_OverwriteRenamesEach ==
    (/\ command = "rename" /\ Returned
     /\ ~args.numbered
     /\ Len(Batch) >= 1
     /\ args.overwrite # NoOverwrite
     /\ Len(args.overwrite) = Len(Batch)
     /\ \A i \in DOMAIN args.overwrite : args.overwrite[i] # <<>>)
    => \A i \in DOMAIN Batch :
          RenamedTo(Batch[i], args.prefix \o args.overwrite[i] \o args.suffix
                                \o splitext(Batch[i]).ext)

\* C3: with --numbered, every rename performed gives the file at position i
\* (0-based) of the resolved list the name prefix + (i+1) + suffix + its
\* extension, whatever its base name and whatever --overwrite holds.
C3_NumberingWins ==
    (command = "rename" /\ args.numbered)
    => \A k \in DOMAIN renames :
          renames[k].to = args.prefix \o IntToStr(Position(renames[k].from))
                            \o args.suffix \o splitext(renames[k].from).ext

\* C3 witness: a file was renamed under --numbered although an overwrite
\* name was given and accepted for it
C3_Witness ==
    /\ command = "rename" /\ args.numbered /\ pc = "done"
    /\ args.overwrite # NoOverwrite
    /\ \E k \in DOMAIN renames :
          /\ OverwriteCheck(args.overwrite, Position(renames[k].from) - 1) = "ok"
          /\ renames[k].to # renames[k].from

\* C4 (as claimed): --numbered alone on a directory with three regular files
\* leaves those three files named 1.ext, 2.ext, 3.ext in listing order,
\* whatever they were called and whatever else the directory holds.
C4_NumberedThree ==
    (/\ command = "rename" /\ pc = "done"
     /\ args.directory = DirPath
     /\ args.numbered /\ args.prefix = <<>> /\ args.suffix = <<>>
     /\ args.overwrite = NoOverwrite
     /\ Len(Batch) = 3)
    => \A k \in 1..3 :
          LET new == IntToStr(k) \o splitext(Batch[k]).ext
          IN  isfile(fs, new) /\ fs[new] = Batch[k]

\* C5 (as claimed): when the conversion of one file fails, the batch is not
\* aborted: every later regular file of the resolved list is still renamed.
C5_ConversionFailureContinues ==
    (/\ command = "rename" /\ pc \in {"done", "aborted", "crashed"}
     /\ \E m \in DOMAIN out : out[m].msg = "Traceback" /\ out[m].cause = "conversion")
    => \A j \in DOMAIN files :
          (j > idx + 1 /\ isfile(fs0, files[j])) =>
              \E k \in DOMAIN renames : renames[k].from = files[j]

\* C6: whenever the handler returns on an overwrite validation error, the
\* directory is as it was on entry: nothing was renamed and nothing was
\* written under ./output_pdf or ./output_txt.
C6_ValidationErrorNoEffect ==
    (command = "rename" /\ pc = "aborted")
    => (fs = fs0 /\ renames = <<>> /\ artifacts = {})

\* C6 witness: a batch of several files, with conversion asked for, ends on
\* the validation error after earlier entries of the list were passed over
C6_Witness ==
    /\ command = "rename" /\ pc = "aborted"
    /\ args.txtpdfconvert
    /\ Len(Batch) >= 2
    /\ idx >= 1
    /\ out[Len(out)].msg = "Error: Overwrite"

\* C10 (as claimed): a rename that runs to completion loses no file: the
\* directory holds as many regular files as before and no file is renamed
\* twice.
C10_NoFileLost ==
    (command = "rename" /\ pc = "done" /\ args.directory = DirPath)
    => /\ Cardinality(RegularFiles(fs)) = Cardinality(RegularFiles(fs0))
       /\ \A j, k \in DOMAIN renames : renames[j].id = renames[k].id => j = k

(***************************************************************************)
(* Properties of combine (specification SpecCombine).                      *)
(***************************************************************************)
\* the entries among the first n whose append succeeded, by the notices
Added(i) == out[i].msg = "Added" /\ out[i].file = files[i]

\* the pages of the added entries among the first n, in input order
RECURSIVE AddedPages(_)
AddedPages(n) ==
    IF n = 0 THEN <<>>
    ELSE AddedPages(n - 1) \o (IF Added(n) THEN Pages(files[n]) ELSE <<>>)

\* C7: the accumulated document is at every moment the pages, in input
\* order, of exactly the entries whose append succeeded; a failed append adds
\* nothing and does not stop the loop; the write is attempted exactly once,
\* after every entry has had its notice, and what it writes is that
\* concatenation.
C7_MergeInOrder ==
    command = "combine" =>
        /\ merger = AddedPages(idx)
        /\ \A i \in 1..idx :
              /\ out[i].file = files[i]
              /\ Added(i) <=> (/\ IsPdfName(files[i])
                               /\ files[i] \notin NotOnDisk
                               /\ files[i] \notin Unreadable)
        /\ written # NoDoc => pc = "done"
        /\ pc = "done" =>
              /\ idx = Len(files)
              /\ Len(out) = Len(files) + 1
              /\ out[Len(out)].msg \in {"Combined PDF saved as",
                                         "Failed to write output PDF"}
              /\ \A i \in 1..Len(files) :
                    out[i].msg \in {"Added", "Skipping non-PDF", "File not found",
                                    "Error adding"}
              /\ out[Len(out)].msg = "Combined PDF saved as"
                    <=> written = <<AddedPages(Len(files))>>
              /\ out[Len(out)].msg = "Failed to write output PDF"
                    <=> written = NoDoc

\* C7 witness: two documents were added around an entry whose append failed,
\* and the output was written
C7_Witness ==
    /\ command = "combine" /\ pc = "done"
    /\ Len(files) = 3
    /\ files[1] # files[3]
    /\ out[1].msg = "Added"
    /\ out[2].msg \in {"File not found", "Error adding"}
    /\ out[3].msg = "Added"
    /\ written = <<Pages(files[1]) \o Pages(files[3])>>
    /\ Len(written[1]) = 3

\* a name ending in a PDF suffix in any letter case
IsPdfLike(f) == EndsWith(Lower(f), DotPdf)

\* C8 (as claimed): an entry is skipped with a notice exactly when its name
\* does not end in ".pdf" in some letter case; ".PDF" and ".Pdf" names are
\* attempted.
C8_SkipIffNotPdfLike ==
    command = "combine" =>
        \A i \in 1..idx :
            out[i].msg = "Skipping non-PDF" <=> ~IsPdfLike(files[i])

(***************************************************************************)
(* Properties of analyze (specification SpecAnalyze).                      *)
(***************************************************************************)
\* the number printed after the message, when the message was printed
Reported(msg, n) ==
    \A m \in DOMAIN out : out[m].msg = msg => out[m].n = n

NewlineCount(t) == Cardinality({i \in DOMAIN t : t[i] = "\n"})
LineBreakCount(t) == Cardinality({i \in DOMAIN t : t[i] \in LineBreaks})
\* the maximal runs of non-whitespace characters, counted at their first character
WordRuns(t) ==
    Cardinality({i \in DOMAIN t :
        t[i] \notin Whitespace /\ (i = 1 \/ t[i - 1] \in Whitespace)})

\* the number of segments the newlines cut a text into: one more than the
\* number of newlines (for the empty text, none or one: both readings pass)
NewlineSegments(t) ==
    IF t = <<>> THEN {0, 1} ELSE {NewlineCount(t) + 1}

\* C9 (as claimed): the reported line count is the number of segments
\* obtained by splitting the text on newlines, the word count the number of
\* maximal non-whitespace runs, the character count the length.
C9_CountsAsClaimed ==
    (command = "analyze" /\ pc = "done" /\ filetext.exists) =>
        /\ \E n \in NewlineSegments(filetext.text) : Reported("Total lines", n)
        /\ Reported("Total words", WordRuns(filetext.text))
        /\ Reported("Total characters", Len(filetext.text))

\* C9 (amended): the reported line count is the number of line breaks
\* (newline, form feed) plus one when the text is not empty and does not end
\* in a line break; the word count is the number of maximal non-whitespace
\* runs; the character count is the length.
C9_Counts ==
    (command = "analyze" /\ pc = "done" /\ filetext.exists) =>
        LET t == filetext.text
            open == IF t # <<>> /\ t[Len(t)] \notin LineBreaks THEN 1 ELSE 0
        IN  /\ Reported("Total lines", LineBreakCount(t) + open)
            /\ Reported("Total words", WordRuns(t))
            /\ Reported("Total characters", Len(t))

\* C9 witness: the text "a b\na" is reported as 2 lines, 3 words, 5 characters
C9_Witness ==
    /\ command = "analyze" /\ pc = "done"
    /\ filetext.exists
    /\ filetext.text = <<"a", " ", "b", "\n", "a">>
    /\ Len(out) >= 3
    /\ out[1] = [msg |-> "Total lines", n |-> 2]
    /\ out[2] = [msg |-> "Total words", n |-> 3]
    /\ out[3] = [msg |-> "Total characters", n |-> 5]

====
